---------------------------- MODULE Spec2Model ----------------------------
(***************************************************************************)
(* A model of the vibe request path of src/app.py: generate_music_vibe,     *)
(* save_vibe_to_history, display_vibe_result, the session handling of       *)
(* show_auth_page / logout_user / main, and the part of main that calls     *)
(* them.                                                                   *)
(*                                                                         *)
(* Text that the program inspects character by character (exception        *)
(* messages, searched for substrings by the error classifier) is a         *)
(* sequence of one-character strings.  The raw output of the generation    *)
(* service is a sequence of JSON lexical tokens, which json_loads parses   *)
(* the way json.loads does.  Python values are records of one shape        *)
(* (PyVal) so that any two of them can be compared.                        *)
(***************************************************************************)
EXTENDS Integers, Sequences, FiniteSets, TLC

\* The number of vibe requests a run of the model issues.
MaxRequests == 2

(***************************************************************************)
(* Character text.                                                         *)
(***************************************************************************)
UpperChars ==
    <<"A","B","C","D","E","F","G","H","I","J","K","L","M","N","O","P","Q","R","S","T",
      "U","V","W","X","Y","Z">>

LowerChars ==
    <<"a","b","c","d","e","f","g","h","i","j","k","l","m","n","o","p","q","r","s","t",
      "u","v","w","x","y","z">>

\* str.lower() on one character
LowerChar(c) ==
    IF \E i \in 1..Len(UpperChars) : UpperChars[i] = c
    THEN LowerChars[CHOOSE i \in 1..Len(UpperChars) : UpperChars[i] = c]
    ELSE c

\* str.lower()
Lower(s) == [i \in 1..Len(s) |-> LowerChar(s[i])]

\* the Python test `pat in s`
Contains(s, pat) ==
    \E i \in 1..(Len(s) - Len(pat) + 1) : SubSeq(s, i, i + Len(pat) - 1) = pat

DigitChars == <<"0","1","2","3","4","5","6","7","8","9">>

\* str(n) of a non-negative integer below 100
Digits(n) ==
    IF n < 10 THEN <<DigitChars[n + 1]>>
    ELSE <<DigitChars[(n \div 10) + 1], DigitChars[(n % 10) + 1]>>

\* the text: Failed to generate music vibe: 
GenerateFailedPrefix ==
    <<"F","a","i","l","e","d"," ","t","o"," ","g","e","n","e","r","a","t","e"," ","m",
      "u","s","i","c"," ","v","i","b","e",":"," ">>

\* the text: Failed to parse AI response: 
ParseFailedPrefix ==
    <<"F","a","i","l","e","d"," ","t","o"," ","p","a","r","s","e"," ","A","I"," ","r",
      "e","s","p","o","n","s","e",":"," ">>

\* the text: No content received from AI response
NoContentMessage ==
    <<"N","o"," ","c","o","n","t","e","n","t"," ","r","e","c","e","i","v","e","d"," ",
      "f","r","o","m"," ","A","I"," ","r","e","s","p","o","n","s","e">>

\* the text: Expecting value
DiagExpectingValue ==
    <<"E","x","p","e","c","t","i","n","g"," ","v","a","l","u","e">>

\* the text: Expecting property name enclosed in double quotes
DiagExpectingName ==
    <<"E","x","p","e","c","t","i","n","g"," ","p","r","o","p","e","r","t","y"," ","n",
      "a","m","e"," ","e","n","c","l","o","s","e","d"," ","i","n"," ","d","o","u","b",
      "l","e"," ","q","u","o","t","e","s">>

\* the text: Expecting ':' delimiter
DiagExpectingColon ==
    <<"E","x","p","e","c","t","i","n","g"," ","'",":","'"," ","d","e","l","i","m","i",
      "t","e","r">>

\* the text: Expecting ',' delimiter
DiagExpectingComma ==
    <<"E","x","p","e","c","t","i","n","g"," ","'",",","'"," ","d","e","l","i","m","i",
      "t","e","r">>

\* the text: Extra data
DiagExtraData ==
    <<"E","x","t","r","a"," ","d","a","t","a">>

\* the text: Unterminated string starting at
DiagUnterminated ==
    <<"U","n","t","e","r","m","i","n","a","t","e","d"," ","s","t","r","i","n","g"," ",
      "s","t","a","r","t","i","n","g"," ","a","t">>

\* the text: : line 1 column 
DiagLineColumn ==
    <<":"," ","l","i","n","e"," ","1"," ","c","o","l","u","m","n"," ">>

\* the text:  (char 
DiagChar ==
    <<" ","(","c","h","a","r"," ">>

\* the text: )
DiagClose ==
    <<")">>

(***************************************************************************)
(* Python values.                                                          *)
(***************************************************************************)
\* ty is "none", "str", "num", "list" or "dict"; s the text of a str or num;
\* items the elements of a list; d the entries of a dict, in insertion order,
\* each [key |-> ..., val |-> ...].
PyNone == [ty |-> "none", s |-> "", items |-> <<>>, d |-> <<>>]

PyStr(s) == [ty |-> "str", s |-> s, items |-> <<>>, d |-> <<>>]

PyNum(s) == [ty |-> "num", s |-> s, items |-> <<>>, d |-> <<>>]

PyList(items) == [ty |-> "list", s |-> "", items |-> items, d |-> <<>>]

PyDict(d) == [ty |-> "dict", s |-> "", items |-> <<>>, d |-> d]

\* The marker of a variable that holds nothing yet (a local not yet assigned).
Unset == [ty |-> "unset", s |-> "", items |-> <<>>, d |-> <<>>]

\* `key in d`
HasKey(d, key) == \E i \in 1..Len(d) : d[i].key = key

\* dict.get(key, default)
DictGet(d, key, default) ==
    IF HasKey(d, key)
    THEN d[CHOOSE i \in 1..Len(d) : d[i].key = key].val
    ELSE default

\* d[key] = val: a key already present keeps its place and takes the new value
DictPut(d, key, val) ==
    IF HasKey(d, key)
    THEN [i \in 1..Len(d) |-> IF d[i].key = key THEN [key |-> key, val |-> val] ELSE d[i]]
    ELSE Append(d, [key |-> key, val |-> val])

(***************************************************************************)
(* JSON text as lexical tokens, and json.loads over them.                  *)
(***************************************************************************)
Tok(k, v) == [k |-> k, v |-> v]

LBrace == Tok("punct", "{")

RBrace == Tok("punct", "}")

LBracket == Tok("punct", "[")

RBracket == Tok("punct", "]")

Colon == Tok("punct", ":")

Comma == Tok("punct", ",")

\* a complete string literal
TStr(s) == Tok("str", s)

\* a string literal whose closing quote is missing
TBadStr(s) == Tok("badstr", s)

TNull == Tok("null", "null")

TNum(s) == Tok("num", s)

\* text that starts no JSON value, such as the words of "not json"
TWord(s) == Tok("word", s)

\* str(JSONDecodeError(msg, doc, pos)): "msg: line L column C (char P)"; the
\* position is counted in tokens, all on line 1.
DecodeErrorText(msg, pos) ==
    msg \o DiagLineColumn \o Digits(pos) \o DiagChar \o Digits(pos - 1) \o DiagClose

ParseOk(val, pos) == [ok |-> TRUE, val |-> val, pos |-> pos, err |-> <<>>]

ParseFail(msg, pos) ==
    [ok |-> FALSE, val |-> Unset, pos |-> pos, err |-> DecodeErrorText(msg, pos)]

RECURSIVE ScanOnce(_, _), ObjectLoop(_, _, _), ArrayLoop(_, _, _)

\* json.decoder.JSONObject from the key at position i on; acc holds the
\* entries read so far
ObjectLoop(toks, i, acc) ==
    IF toks[i].k = "badstr" THEN ParseFail(DiagUnterminated, i)
    ELSE IF i + 1 > Len(toks) \/ toks[i + 1] # Colon
    THEN ParseFail(DiagExpectingColon, i + 1)
    ELSE LET r == ScanOnce(toks, i + 2) IN
         IF ~r.ok THEN r
         ELSE LET acc2 == DictPut(acc, toks[i].v, r.val)
                  j == r.pos
              IN  IF j <= Len(toks) /\ toks[j] = RBrace
                  THEN ParseOk(PyDict(acc2), j + 1)
                  ELSE IF j > Len(toks) \/ toks[j] # Comma
                  THEN ParseFail(DiagExpectingComma, j)
                  ELSE IF j + 1 <= Len(toks) /\ toks[j + 1].k \in {"str", "badstr"}
                  THEN ObjectLoop(toks, j + 1, acc2)
                  ELSE ParseFail(DiagExpectingName, j + 1)

\* json.decoder.JSONArray from the value at position i on
ArrayLoop(toks, i, acc) ==
    LET r == ScanOnce(toks, i) IN
    IF ~r.ok THEN r
    ELSE LET acc2 == Append(acc, r.val)
             j == r.pos
         IN  IF j <= Len(toks) /\ toks[j] = RBracket
             THEN ParseOk(PyList(acc2), j + 1)
             ELSE IF j > Len(toks) \/ toks[j] # Comma
             THEN ParseFail(DiagExpectingComma, j)
             ELSE ArrayLoop(toks, j + 1, acc2)

\* json.scanner scan_once at position i
ScanOnce(toks, i) ==
    IF i > Len(toks) THEN ParseFail(DiagExpectingValue, i)
    ELSE CASE toks[i].k = "str" -> ParseOk(PyStr(toks[i].v), i + 1)
           [] toks[i].k = "badstr" -> ParseFail(DiagUnterminated, i)
           [] toks[i].k = "null" -> ParseOk(PyNone, i + 1)
           [] toks[i].k = "num" -> ParseOk(PyNum(toks[i].v), i + 1)
           [] toks[i] = LBrace ->
                IF i + 1 <= Len(toks) /\ toks[i + 1].k \in {"str", "badstr"}
                THEN ObjectLoop(toks, i + 1, <<>>)
                ELSE IF i + 1 <= Len(toks) /\ toks[i + 1] = RBrace
                THEN ParseOk(PyDict(<<>>), i + 2)
                ELSE ParseFail(DiagExpectingName, i + 1)
           [] toks[i] = LBracket ->
                IF i + 1 <= Len(toks) /\ toks[i + 1] = RBracket
                THEN ParseOk(PyList(<<>>), i + 2)
                ELSE ArrayLoop(toks, i + 1, <<>>)
           [] OTHER -> ParseFail(DiagExpectingValue, i)

\* json.loads(content): one value, then the end of the text
json_loads(toks) ==
    LET r == ScanOnce(toks, 1) IN
    IF ~r.ok THEN r
    ELSE IF r.pos <= Len(toks) THEN ParseFail(DiagExtraData, r.pos)
    ELSE r

(***************************************************************************)
(* What the generation service can answer (the inputs of the model).       *)
(***************************************************************************)
\* the tokens of a field value: a str, None, a number or a list of str
RenderVal(v) ==
    CASE v.ty = "str" -> <<TStr(v.s)>>
      [] v.ty = "none" -> <<TNull>>
      [] v.ty = "num" -> <<TNum(v.s)>>
      [] OTHER ->
           LET n == Len(v.items) IN
           <<LBracket>>
           \o [i \in 1..(IF n = 0 THEN 0 ELSE 2 * n - 1) |->
                 IF i % 2 = 1 THEN TStr(v.items[(i + 1) \div 2].s) ELSE Comma]
           \o <<RBracket>>

RECURSIVE RenderEntries(_)

RenderEntries(d) ==
    IF d = <<>> THEN <<>>
    ELSE <<TStr(d[1].key), Colon>> \o RenderVal(d[1].val)
         \o (IF Len(d) = 1 THEN <<>> ELSE <<Comma>> \o RenderEntries(Tail(d)))

\* the JSON text of an object with the entries d, in order
RenderObject(d) == <<LBrace>> \o RenderEntries(d) \o <<RBrace>>

Entry(key, val) == [key |-> key, val |-> val]

\* the five fields the prompt asks for
RequiredFields == <<"mood", "genre", "energy_level", "aesthetic_keywords", "suggested_music">>

FullPayload ==
    <<Entry("mood", PyStr("Calm")),
      Entry("genre", PyStr("Jazz")),
      Entry("energy_level", PyStr("low")),
      Entry("aesthetic_keywords", PyList(<<PyStr("smooth"), PyStr("night")>>)),
      Entry("suggested_music", PyStr("Miles Davis"))>>

\* d without the entries of key
Without(d, key) == SelectSeq(d, LAMBDA e : e.key # key)

\* objects the service may send: complete, with an extra field, with fields
\* missing, with a null field, with a repeated key
ObjectPayloads ==
    { FullPayload,
      Append(FullPayload, Entry("tempo", PyStr("slow"))),
      Without(FullPayload, "genre"),
      Without(FullPayload, "suggested_music"),
      <<>>,
      DictPut(FullPayload, "energy_level", PyNone),
      Append(FullPayload, Entry("genre", PyStr("Blues"))) }

\* JSON values that are no object
NonObjectTexts ==
    { <<LBracket, TStr("Calm"), Comma, TStr("Jazz"), RBracket>>,
      <<TStr("Calm")>>,
      <<TNum("42")>>,
      <<TNull>> }

\* text that is no JSON value
MalformedTexts ==
    { <<TWord("not"), TWord("json")>>,
      <<LBrace, TStr("mood"), TStr("Calm"), RBrace>>,
      <<LBrace, TStr("mood"), Colon, TStr("Calm"), TStr("genre"), Colon, TStr("Jazz"), RBrace>>,
      <<LBrace, TStr("mood"), Colon, TStr("Calm"), Comma, RBrace>>,
      <<LBrace, TStr("mood"), Colon>>,
      <<LBrace, TStr("mood"), Colon, TBadStr("Cal")>>,
      RenderObject(FullPayload) \o <<RBrace>> }

\* response.text: None, or text
NoneContent == [isNone |-> TRUE, toks |-> <<>>]

TextContent(toks) == [isNone |-> FALSE, toks |-> toks]

Contents ==
    {NoneContent, TextContent(<<>>)}
    \cup {TextContent(t) : t \in NonObjectTexts \cup MalformedTexts}
    \cup {TextContent(RenderObject(d)) : d \in ObjectPayloads}

\* the text: 400 API_KEY_INVALID
MsgApiKeyInvalid ==
    <<"4","0","0"," ","A","P","I","_","K","E","Y","_","I","N","V","A","L","I","D">>

\* the text: 401 Unauthorized
MsgUnauthorized ==
    <<"4","0","1"," ","U","n","a","u","t","h","o","r","i","z","e","d">>

\* the text: 403 Permission denied
MsgPermissionDenied ==
    <<"4","0","3"," ","P","e","r","m","i","s","s","i","o","n"," ","d","e","n","i","e",
      "d">>

\* the text: 429 Quota exceeded
MsgQuotaExceeded ==
    <<"4","2","9"," ","Q","u","o","t","a"," ","e","x","c","e","e","d","e","d">>

\* the text: Rate Limit reached
MsgRateLimit ==
    <<"R","a","t","e"," ","L","i","m","i","t"," ","r","e","a","c","h","e","d">>

\* the text: permission to raise quota denied
MsgPermissionQuota ==
    <<"p","e","r","m","i","s","s","i","o","n"," ","t","o"," ","r","a","i","s","e"," ",
      "q","u","o","t","a"," ","d","e","n","i","e","d">>

\* the text: Connection reset by peer
MsgConnectionReset ==
    <<"C","o","n","n","e","c","t","i","o","n"," ","r","e","s","e","t"," ","b","y"," ",
      "p","e","e","r">>

\* str(e) of the exceptions genai raises
TransportErrors ==
    { MsgApiKeyInvalid, MsgUnauthorized, MsgPermissionDenied, MsgQuotaExceeded,
      MsgRateLimit, MsgPermissionQuota, MsgConnectionReset }

\* the outcomes of model.generate_content(prompt)
CallOutcomes ==
    {[raised |-> TRUE, msg |-> m, content |-> NoneContent] : m \in TransportErrors}
    \cup {[raised |-> FALSE, msg |-> <<>>, content |-> c] : c \in Contents}

\* descriptions the user types, as words
ShortDescription ==
    <<"quiet", "night", "owl", "who", "reads", "old", "books", "by", "candlelight">>

LongDescription ==
    <<"I", "like", "long", "walks", "and", "loud", "guitars", "on", "rainy", "days">>

Descriptions == {ShortDescription, LongDescription}

\* the text: api_key
KwApiKey ==
    <<"a","p","i","_","k","e","y">>

\* the text: unauthorized
KwUnauthorized ==
    <<"u","n","a","u","t","h","o","r","i","z","e","d">>

\* the text: permission
KwPermission ==
    <<"p","e","r","m","i","s","s","i","o","n">>

\* the text: quota
KwQuota ==
    <<"q","u","o","t","a">>

\* the text: limit
KwLimit ==
    <<"l","i","m","i","t">>

(***************************************************************************)
(* The state of the program.                                               *)
(***************************************************************************)
VARIABLES
    supabase,            \* whether the module-level client was created
    session,             \* st.session_state: user, user_email, guest_mode
    history,             \* the rows of the table user_vibes, oldest first
    reqId,               \* the number of the current request (0: none yet)
    state,               \* where the current request is in generate_music_vibe
    description,         \* the argument of generate_music_vibe
    warned,              \* whether the too-short warning was shown
    prompt,              \* the local prompt
    system_instruction,  \* the local system_instruction
    calls,               \* calls of model.generate_content by this request
    content,             \* the local content (response.text)
    result,              \* the value generate_music_vibe returned
    error,               \* str(e) of the exception generate_music_vibe raised
    handled,             \* whether main has dealt with the outcome
    errorKind,           \* the kind of error main showed
    displayed,           \* what display_vibe_result rendered
    saveOutcome,         \* what save_vibe_to_history did for this request
    saveRaised,          \* whether save_vibe_to_history raised to main
    sent                 \* the requests made of the generation service so far

vars ==
    <<supabase, session, history, reqId, state, description, warned, prompt,
      system_instruction, calls, content, result, error, handled, errorKind,
      displayed, saveOutcome, saveRaised, sent>>

sessionVars == <<supabase, session>>

requestVars ==
    <<reqId, state, description, warned, prompt, system_instruction, calls, content,
      result, error>>

outcomeVars == <<handled, errorKind, displayed, saveOutcome, saveRaised>>

States == {"Idle", "Building", "Calling", "Validating", "Succeeded", "Failed"}

ErrorKinds == {"CredentialError", "RateLimitError", "GenericServiceError"}

NoUser == "none"

Users == {"u1"}

Emails == {"a@x"}

NoContent == [isNone |-> FALSE, toks |-> <<TWord("unset")>>]

\* nothing rendered
NoDisplay ==
    [shown |-> FALSE, raised |-> FALSE, mood |-> Unset, genre |-> Unset,
     energy_level |-> Unset, aesthetic_keywords |-> Unset, suggested_music |-> Unset]

\* `'user' in st.session_state`
HasUser == session.user # NoUser

\* `'guest_mode' in st.session_state`
HasGuest == session.guest_mode

\* the test of main that opens the application view
InAppBoth == HasUser /\ HasGuest

InAppAlways == TRUE

InApp == HasUser \/ HasGuest

\* no request is being served: the script run that served the last one ended
Quiescent == reqId = 0 \/ handled

Init ==
    /\ supabase \in BOOLEAN
    /\ session = [user |-> NoUser, user_email |-> NoUser, guest_mode |-> FALSE]
    /\ history = <<>>
    /\ reqId = 0
    /\ state = "Idle"
    /\ description = <<>>
    /\ warned = FALSE
    /\ prompt = <<>>
    /\ system_instruction = ""
    /\ calls = 0
    /\ content = NoContent
    /\ result = Unset
    /\ error = <<>>
    /\ handled = FALSE
    /\ errorKind = ""
    /\ displayed = NoDisplay
    /\ saveOutcome = "none"
    /\ saveRaised = FALSE
    /\ sent = {}

(***************************************************************************)
(* generate_music_vibe.                                                    *)
(***************************************************************************)
PromptHead ==
    "Given the following description of a person, suggest:\n1. Mood\n2. Music genre\n3. Energy level (low, medium, high)\n4. Aesthetic keywords (3-5)\n5. A matching artist or song\n\nDescription: \""

PromptTail ==
    "\"\n\nPlease respond with a JSON object in this exact format:\n{\n    \"mood\": \"string\",\n    \"genre\": \"string\", \n    \"energy_level\": \"string\",\n    \"aesthetic_keywords\": [\"string1\", \"string2\", \"string3\"],\n    \"suggested_music\": \"string\"\n}"

\* the f-string of the prompt: the template around the description's words
BuildPromptPersonalised(desc) ==
    <<PromptHead>> \o desc \o <<PromptTail, session.user_email>>

BuildPrompt(desc) == <<PromptHead>> \o desc \o <<PromptTail>>

SystemInstruction ==
    "You are a music expert who can analyze personality descriptions and suggest matching music vibes. Always respond with valid JSON."

\* what becomes of the request when generate_content returned or raised: an
\* exception is wrapped by the handler `except Exception`
OnCallOutcomeRetry(o) ==
    IF o.raised
    THEN [state |-> "Calling", content |-> NoContent, error |-> <<>>]
    ELSE [state |-> "Validating", content |-> o.content, error |-> <<>>]

OnCallOutcome(o) ==
    IF o.raised
    THEN [state |-> "Failed", content |-> NoContent,
          error |-> GenerateFailedPrefix \o o.msg]
    ELSE [state |-> "Validating", content |-> o.content, error |-> <<>>]

\* the lines from `content = response.text` to the handlers: the value
\* returned, or the message of the exception raised
ValidateContentLenient(c) ==
    IF c.isNone \/ c.toks = <<>>
    THEN [ok |-> TRUE, result |-> PyDict(<<>>), error |-> <<>>]
    ELSE LET r == json_loads(c.toks) IN
         IF r.ok THEN [ok |-> TRUE, result |-> r.val, error |-> <<>>]
         ELSE [ok |-> FALSE, result |-> Unset, error |-> ParseFailedPrefix \o r.err]

ValidateContentSwallow(c) ==
    IF c.isNone
    THEN [ok |-> FALSE, result |-> Unset,
          error |-> GenerateFailedPrefix \o NoContentMessage]
    ELSE LET r == json_loads(c.toks) IN
         IF r.ok THEN [ok |-> TRUE, result |-> r.val, error |-> <<>>]
         ELSE [ok |-> TRUE, result |-> PyNone, error |-> <<>>]

ValidateContent(c) ==
    IF c.isNone
    THEN [ok |-> FALSE, result |-> Unset,
          error |-> GenerateFailedPrefix \o NoContentMessage]
    ELSE LET r == json_loads(c.toks) IN
         IF r.ok THEN [ok |-> TRUE, result |-> r.val, error |-> <<>>]
         ELSE [ok |-> FALSE, result |-> Unset, error |-> ParseFailedPrefix \o r.err]

\* where the request goes after validation: `return result`, or a raise
AfterValidationRetry(v) == IF v.ok THEN "Succeeded" ELSE "Calling"

AfterValidation(v) == IF v.ok THEN "Succeeded" ELSE "Failed"

\* main calls generate_music_vibe(description)
Enter ==
    /\ reqId >= 1
    /\ state = "Idle"
    /\ state' = "Building"
    /\ UNCHANGED <<reqId, description, warned, prompt, system_instruction, calls,
                   content, result, error>>
    /\ UNCHANGED <<sessionVars, history, outcomeVars>>
    /\ UNCHANGED sent

\* prompt and system_instruction are assigned
Build ==
    /\ state = "Building"
    /\ prompt' = BuildPrompt(description)
    /\ system_instruction' = SystemInstruction
    /\ state' = "Calling"
    /\ UNCHANGED <<reqId, description, warned, calls, content, result, error>>
    /\ UNCHANGED <<sessionVars, history, outcomeVars>>
    /\ UNCHANGED sent

\* what the service is sent: the model's configuration and the prompt.  The
\* description is noted beside them to tell which request it was.
ServiceRequest(desc, p, sys) ==
    [description |-> desc, prompt |-> p, system_instruction |-> sys,
     response_mime_type |-> "application/json"]

\* model.generate_content(prompt) returns or raises
Call(o) ==
    /\ state = "Calling"
    /\ calls' = calls + 1
    /\ sent' = sent \cup {ServiceRequest(description, prompt, system_instruction)}
    /\ LET n == OnCallOutcome(o) IN
         /\ state' = n.state
         /\ content' = n.content
         /\ error' = n.error
    /\ UNCHANGED <<reqId, description, warned, prompt, system_instruction, result>>
    /\ UNCHANGED <<sessionVars, history, outcomeVars>>

\* response.text is read, checked and parsed
Validate ==
    /\ state = "Validating"
    /\ LET v == ValidateContent(content) IN
         /\ state' = AfterValidation(v)
         /\ result' = v.result
         /\ error' = v.error
    /\ UNCHANGED <<reqId, description, warned, prompt, system_instruction, calls,
                   content>>
    /\ UNCHANGED <<sessionVars, history, outcomeVars>>
    /\ UNCHANGED sent

(***************************************************************************)
(* save_vibe_to_history and display_vibe_result.                           *)
(***************************************************************************)
\* the dict passed to insert(); created_at is the number of the request
HistoryRowSwapped(user_id, desc, vibe_data) ==
    [user_id |-> user_id,
     description |-> desc,
     mood |-> DictGet(vibe_data.d, "genre", PyNone),
     genre |-> DictGet(vibe_data.d, "mood", PyNone),
     energy_level |-> DictGet(vibe_data.d, "energy_level", PyNone),
     aesthetic_keywords |-> DictGet(vibe_data.d, "aesthetic_keywords", PyNone),
     suggested_music |-> DictGet(vibe_data.d, "suggested_music", PyNone),
     created_at |-> reqId]

HistoryRowNoDescription(user_id, desc, vibe_data) ==
    [user_id |-> user_id,
     description |-> <<>>,
     mood |-> DictGet(vibe_data.d, "mood", PyNone),
     genre |-> DictGet(vibe_data.d, "genre", PyNone),
     energy_level |-> DictGet(vibe_data.d, "energy_level", PyNone),
     aesthetic_keywords |-> DictGet(vibe_data.d, "aesthetic_keywords", PyNone),
     suggested_music |-> DictGet(vibe_data.d, "suggested_music", PyNone),
     created_at |-> reqId]

HistoryRow(user_id, desc, vibe_data) ==
    [user_id |-> user_id,
     description |-> desc,
     mood |-> DictGet(vibe_data.d, "mood", PyNone),
     genre |-> DictGet(vibe_data.d, "genre", PyNone),
     energy_level |-> DictGet(vibe_data.d, "energy_level", PyNone),
     aesthetic_keywords |-> DictGet(vibe_data.d, "aesthetic_keywords", PyNone),
     suggested_music |-> DictGet(vibe_data.d, "suggested_music", PyNone),
     created_at |-> reqId]

\* save_vibe_to_history(user_id, description, vibe_data); storeOk tells
\* whether insert(...).execute() returns.  vibe_data.get raises
\* AttributeError when vibe_data is no dict.  Every exception is caught.
save_vibe_to_history_uncaught(user_id, desc, vibe_data, storeOk) ==
    IF ~supabase
    THEN [raised |-> FALSE, outcome |-> "nostore", rows |-> history]
    ELSE IF vibe_data.ty # "dict" \/ ~storeOk
    THEN [raised |-> TRUE, outcome |-> "failed", rows |-> history]
    ELSE [raised |-> FALSE, outcome |-> "saved",
          rows |-> Append(history, HistoryRow(user_id, desc, vibe_data))]

save_vibe_to_history(user_id, desc, vibe_data, storeOk) ==
    IF ~supabase
    THEN [raised |-> FALSE, outcome |-> "nostore", rows |-> history]
    ELSE IF vibe_data.ty # "dict" \/ ~storeOk
    THEN [raised |-> FALSE, outcome |-> "failed", rows |-> history]
    ELSE [raised |-> FALSE, outcome |-> "saved",
          rows |-> Append(history, HistoryRow(user_id, desc, vibe_data))]

\* bool(v)
Truthy(v) ==
    CASE v.ty = "none" -> FALSE
      [] v.ty = "str" -> v.s # ""
      [] v.ty = "num" -> v.s # "0"
      [] v.ty = "list" -> v.items # <<>>
      [] OTHER -> v.d # <<>>

\* display_vibe_result(vibe_data): the values rendered, in the order of the
\* code, up to the first exception (.get on a non-dict, .lower() or
\* .replace() on a non-str, iteration over a number)
display_vibe_result(vibe_data) ==
    IF vibe_data.ty # "dict" THEN [NoDisplay EXCEPT !.shown = TRUE, !.raised = TRUE]
    ELSE LET mood == DictGet(vibe_data.d, "mood", PyStr("Unknown"))
             genre == DictGet(vibe_data.d, "genre", PyStr("Unknown"))
             energy == DictGet(vibe_data.d, "energy_level", PyStr("Unknown"))
             keywords == DictGet(vibe_data.d, "aesthetic_keywords", PyList(<<>>))
             suggested ==
                 DictGet(vibe_data.d, "suggested_music", PyStr("No suggestion available"))
             upToGenre ==
                 [NoDisplay EXCEPT !.shown = TRUE, !.mood = mood, !.genre = genre]
         IN  IF energy.ty # "str" THEN [upToGenre EXCEPT !.raised = TRUE]
             ELSE IF Truthy(keywords) /\ keywords.ty = "num"
             THEN [upToGenre EXCEPT !.energy_level = energy, !.raised = TRUE]
             ELSE IF suggested.ty # "str"
             THEN [upToGenre EXCEPT !.energy_level = energy,
                                    !.aesthetic_keywords = keywords, !.raised = TRUE]
             ELSE [upToGenre EXCEPT !.energy_level = energy,
                                    !.aesthetic_keywords = keywords,
                                    !.suggested_music = suggested]

(***************************************************************************)
(* The session: show_auth_page, logout_user and the test of main.          *)
(***************************************************************************)
LoginOutcomes == {"user", "nouser", "raises"}

\* the session after a click on Login without the test `if response.user`
LoginSessionUnchecked(email, password, outcome) ==
    IF email # "" /\ password # "" /\ supabase /\ outcome = "user"
    THEN [session EXCEPT !.user = CHOOSE u \in Users : TRUE, !.user_email = email]
    ELSE IF email # "" /\ password # "" /\ supabase /\ outcome = "nouser"
    THEN [session EXCEPT !.user_email = email]
    ELSE session

\* the session after a click on Login: `if email and password`, `if supabase`,
\* login_user returning or raising, `if response.user`
LoginSession(email, password, outcome) ==
    IF email # "" /\ password # "" /\ supabase /\ outcome = "user"
    THEN [session EXCEPT !.user = CHOOSE u \in Users : TRUE, !.user_email = email]
    ELSE session

\* the Login button of show_auth_page; outcome is what
\* sign_in_with_password does: a response with a user, one without, a raise
Login(email, password, outcome) ==
    /\ Quiescent
    /\ ~InApp
    /\ session' = LoginSession(email, password, outcome)
    /\ UNCHANGED <<supabase, history, requestVars, outcomeVars>>
    /\ UNCHANGED sent

\* the Continue as Guest button of show_auth_page
ContinueAsGuest ==
    /\ Quiescent
    /\ ~InApp
    /\ session' = [session EXCEPT !.guest_mode = TRUE]
    /\ UNCHANGED <<supabase, history, requestVars, outcomeVars>>
    /\ UNCHANGED sent

\* logout_user with the removal of the two keys moved out of the try block
logout_user_finally(signOutOk) ==
    [raised |-> FALSE,
     session |-> [session EXCEPT !.user = NoUser, !.user_email = NoUser]]

\* logout_user(); signOutOk tells whether supabase.auth.sign_out() returns.
\* With no client, supabase.auth raises AttributeError, which is caught.
logout_user(signOutOk) ==
    IF supabase /\ signOutOk
    THEN [raised |-> FALSE,
          session |-> [session EXCEPT !.user = NoUser, !.user_email = NoUser]]
    ELSE [raised |-> FALSE, session |-> session]

\* the logout control of the application view
Logout(signOutOk) ==
    /\ Quiescent
    /\ HasUser
    /\ session' = logout_user(signOutOk).session
    /\ UNCHANGED <<supabase, history, requestVars, outcomeVars>>
    /\ UNCHANGED sent

(***************************************************************************)
(* The part of main that serves a request: the warning for a short         *)
(* description, the call of generate_music_vibe, and what is done with     *)
(* its outcome.                                                            *)
(***************************************************************************)
\* a description of fewer words gets the warning
MinWords == 10

\* the kind of error shown for the message of a failure
ClassifyErrorRateFirst(msg) ==
    LET m == Lower(msg) IN
    IF Contains(m, KwQuota) \/ Contains(m, KwLimit) THEN "RateLimitError"
    ELSE IF Contains(m, KwApiKey) \/ Contains(m, KwUnauthorized)
            \/ Contains(m, KwPermission)
    THEN "CredentialError"
    ELSE "GenericServiceError"

ClassifyError(msg) ==
    LET m == Lower(msg) IN
    IF Contains(m, KwApiKey) \/ Contains(m, KwUnauthorized) \/ Contains(m, KwPermission)
    THEN "CredentialError"
    ELSE IF Contains(m, KwQuota) \/ Contains(m, KwLimit) THEN "RateLimitError"
    ELSE "GenericServiceError"

\* len(description.split()) < 10: the description gets the warning
TooShortInclusive(d) == Len(d) <= MinWords

TooShort(d) == Len(d) < MinWords

\* the user submits a description in the application view
Submit(d) ==
    /\ Quiescent
    /\ InApp
    /\ reqId < MaxRequests
    /\ reqId' = reqId + 1
    /\ state' = "Idle"
    /\ description' = d
    /\ warned' = TooShort(d)
    /\ prompt' = <<>>
    /\ system_instruction' = ""
    /\ calls' = 0
    /\ content' = NoContent
    /\ result' = Unset
    /\ error' = <<>>
    /\ handled' = FALSE
    /\ errorKind' = ""
    /\ displayed' = NoDisplay
    /\ saveOutcome' = "none"
    /\ saveRaised' = FALSE
    /\ UNCHANGED <<sessionVars, history>>
    /\ UNCHANGED sent

\* generate_music_vibe returned: the result is displayed and, for an
\* authenticated session, saved
PresentSuccess(storeOk) ==
    /\ state = "Succeeded"
    /\ ~handled
    /\ handled' = TRUE
    /\ errorKind' = ""
    /\ displayed' = display_vibe_result(result)
    /\ IF HasUser
       THEN LET s == save_vibe_to_history(session.user, description, result, storeOk) IN
              /\ history' = s.rows
              /\ saveOutcome' = s.outcome
              /\ saveRaised' = s.raised
       ELSE /\ history' = history
            /\ saveOutcome' = "skipped"
            /\ saveRaised' = FALSE
    /\ UNCHANGED <<sessionVars, requestVars>>
    /\ UNCHANGED sent

\* generate_music_vibe raised: the message is classified and the error shown
PresentFailure ==
    /\ state = "Failed"
    /\ ~handled
    /\ handled' = TRUE
    /\ errorKind' = ClassifyError(error)
    /\ UNCHANGED <<displayed, saveOutcome, saveRaised>>
    /\ UNCHANGED <<sessionVars, history, requestVars>>
    /\ UNCHANGED sent

Next ==
    \/ \E e \in Emails \cup {""}, p \in {"", "pw"}, o \in LoginOutcomes : Login(e, p, o)
    \/ ContinueAsGuest
    \/ \E b \in BOOLEAN : Logout(b)
    \/ \E d \in Descriptions : Submit(d)
    \/ Enter
    \/ Build
    \/ \E o \in CallOutcomes : Call(o)
    \/ Validate
    \/ \E b \in BOOLEAN : PresentSuccess(b)
    \/ PresentFailure

Spec == Init /\ [][Next]_vars

\* a script run is synchronous: once main has called generate_music_vibe,
\* the function is entered, builds its prompt, and generate_content returns
\* or raises
FairSpec ==
    /\ Spec
    /\ WF_vars(Enter)
    /\ WF_vars(Build)
    /\ WF_vars(\E o \in CallOutcomes : Call(o))

(***************************************************************************)
(* Properties.                                                             *)
(***************************************************************************)
Terminal == {"Succeeded", "Failed"}

AllowedTransitions ==
    { <<"Idle", "Building">>, <<"Building", "Calling">>, <<"Calling", "Validating">>,
      <<"Calling", "Failed">>, <<"Validating", "Succeeded">>, <<"Validating", "Failed">> }

\* C1: a request changes state only along Idle -> Building -> Calling ->
\* Validating -> Succeeded | Failed, with Calling -> Failed and Validating ->
\* Failed as the only other moves; a step that keeps the state changes nothing
\* of generate_music_vibe's locals (no state is entered again); nothing moves
\* a request out of Succeeded or Failed; a request enters Failed with the
\* message of an exception and no result, and Succeeded with a result and no
\* exception; a new request starts in Idle, after the previous one ended.
C1_StateOrder ==
    [][ IF reqId' = reqId
        THEN /\ state' = state \/ <<state, state'>> \in AllowedTransitions
             /\ state' = state =>
                  UNCHANGED <<description, prompt, system_instruction, calls, content,
                              result, error>>
             /\ state \in Terminal => state' = state
             /\ (state' = "Failed" /\ state # "Failed") =>
                  (error' # <<>> /\ result' = Unset)
             /\ (state' = "Succeeded" /\ state # "Succeeded") =>
                  (error' = <<>> /\ result' # Unset)
        ELSE /\ state' = "Idle"
             /\ reqId = 0 \/ state \in Terminal ]_vars

\* a second request went through every state to Succeeded
C1_Witness ==
    /\ reqId >= 2
    /\ state = "Succeeded"
    /\ calls = 1
    /\ prompt # <<>>
    /\ result.ty = "dict"

\* the last row written to user_vibes
LastRow == history[Len(history)]

FieldOf(r, f) ==
    CASE f = "mood" -> r.mood
      [] f = "genre" -> r.genre
      [] f = "energy_level" -> r.energy_level
      [] f = "aesthetic_keywords" -> r.aesthetic_keywords
      [] OTHER -> r.suggested_music

FieldNames == {RequiredFields[i] : i \in 1..Len(RequiredFields)}

\* C2: what a succeeded request hands to presentation and to persistence has
\* all five fields populated: no field displayed is missing or null, and no
\* field of the row saved is null.
C2_NoPartialResult ==
    (handled /\ state = "Succeeded") =>
        /\ \A f \in FieldNames : FieldOf(displayed, f) \notin {Unset, PyNone}
        /\ saveOutcome = "saved" => \A f \in FieldNames : FieldOf(LastRow, f) # PyNone

\* C3: when the save of a succeeded request fails (the store raises, the
\* result has no .get, or there is no store), nothing is raised to main, no
\* error kind is shown, and the request is still Succeeded with the value
\* json.loads returned.  In every state, with or without a store, a call of
\* save_vibe_to_history raises nothing, and one that saves nothing leaves the
\* table as it is.
C3_SaveFailureSwallowed ==
    /\ (handled /\ saveOutcome \in {"failed", "nostore"}) =>
          /\ ~saveRaised
          /\ state = "Succeeded"
          /\ errorKind = ""
          /\ result = json_loads(content.toks).val
          /\ displayed.shown
    /\ \A v \in {result, PyDict(FullPayload), PyNone}, storeOk \in BOOLEAN :
          LET s == save_vibe_to_history(CHOOSE u \in Users : TRUE, description, v, storeOk)
          IN  /\ ~s.raised
              /\ s.outcome \in {"saved", "failed", "nostore"}
              /\ s.outcome # "saved" => s.rows = history
              /\ ~supabase => s.outcome = "nostore"

\* an authenticated request succeeded with a complete result and the store
\* raised on insert
C3_Witness ==
    /\ handled
    /\ HasUser
    /\ saveOutcome = "failed"
    /\ state = "Succeeded"
    /\ result = PyDict(FullPayload)
    /\ ~displayed.raised

\* the request failed while generating or validating: the call raised, the
\* output was None, or the output did not parse
FailedInside ==
    \/ content = NoContent
    \/ content.isNone
    \/ ~json_loads(content.toks).ok

\* C4: a request whose generation or validation failed ends in Failed with
\* exactly one of the three error kinds shown and nothing else handed on: no
\* result, no display, no save.
C4_FailuresClassified ==
    /\ (handled /\ FailedInside) =>
          /\ state = "Failed"
          /\ errorKind \in ErrorKinds
          /\ error # <<>>
          /\ result = Unset
          /\ displayed = NoDisplay
          /\ saveOutcome = "none"
    /\ (handled /\ state = "Failed") => FailedInside
    /\ (state = "Failed" /\ ~handled) => errorKind = ""

\* a parse failure was handed to presentation as a classified error
C4_Witness ==
    /\ handled
    /\ state = "Failed"
    /\ content = TextContent(<<TWord("not"), TWord("json")>>)
    /\ errorKind = "GenericServiceError"

\* C5: the kind shown for a failure is decided by its lower-cased message:
\* CredentialError when it contains "api_key", "unauthorized" or
\* "permission"; otherwise RateLimitError when it contains "quota" or
\* "limit"; otherwise GenericServiceError.
C5_Classifier ==
    (handled /\ state = "Failed") =>
        LET m == Lower(error)
            credential ==
                Contains(m, KwApiKey) \/ Contains(m, KwUnauthorized)
                \/ Contains(m, KwPermission)
            rate == Contains(m, KwQuota) \/ Contains(m, KwLimit)
        IN  /\ credential => errorKind = "CredentialError"
            /\ (~credential /\ rate) => errorKind = "RateLimitError"
            /\ (~credential /\ ~rate) => errorKind = "GenericServiceError"

\* a message naming both a permission and a quota, and one whose keyword is
\* in upper case, were classified as CredentialError
C5_Witness ==
    /\ handled
    /\ state = "Failed"
    /\ error \in {GenerateFailedPrefix \o MsgPermissionQuota,
                  GenerateFailedPrefix \o MsgApiKeyInvalid}
    /\ errorKind = "CredentialError"

\* C6: a request whose raw output was None or the empty string ends in Failed
\* with no result, and the kind shown is GenericServiceError.
C6_EmptyOutput ==
    (calls = 1 /\ content \in {NoneContent, TextContent(<<>>)}) =>
        /\ state \in {"Validating", "Failed"}
        /\ result = Unset
        /\ handled => errorKind = "GenericServiceError"

\* the service returned the empty string and the error was shown
C6_Witness ==
    /\ handled
    /\ content = TextContent(<<>>)
    /\ state = "Failed"
    /\ errorKind = "GenericServiceError"

\* C7: raw output that is no single JSON object (malformed text, or an array,
\* a string, a number, null) ends the request in Failed with no result.
C7_NonObjectRejected ==
    (state \in Terminal
     /\ content \in {TextContent(t) : t \in NonObjectTexts \cup MalformedTexts}) =>
        /\ state = "Failed"
        /\ result = Unset

\* the value the spec gives a field: the payload's (the last one of a repeated
\* key), or the placeholder of a missing field
PayloadValue(d, f) ==
    IF HasKey(d, f)
    THEN d[CHOOSE i \in 1..Len(d) :
             d[i].key = f /\ \A j \in (i + 1)..Len(d) : d[j].key # f].val
    ELSE IF f = "aesthetic_keywords" THEN PyList(<<>>) ELSE PyStr("Unknown")

HasAllFields(d) == \A f \in FieldNames : HasKey(d, f)

\* C8: for an object lacking some of the five fields the request succeeds,
\* and the result, the display and the row saved hold "Unknown" for a missing
\* scalar field, the empty list for missing keywords, and the payload's value
\* for a field present.
C8_MissingFieldsDefaulted ==
    \A d \in ObjectPayloads :
        (handled /\ ~HasAllFields(d) /\ content = TextContent(RenderObject(d))) =>
            /\ state = "Succeeded"
            /\ \A f \in FieldNames :
                 /\ DictGet(result.d, f, Unset) = PayloadValue(d, f)
                 /\ FieldOf(displayed, f) = PayloadValue(d, f)
                 /\ saveOutcome = "saved" => FieldOf(LastRow, f) = PayloadValue(d, f)

\* the columns of a row of user_vibes
RowColumns ==
    {"user_id", "description", "mood", "genre", "energy_level", "aesthetic_keywords",
     "suggested_music", "created_at"}

\* C9: for an object carrying all five fields the request succeeds, each of
\* the five fields of the result equals the payload's value (keywords in the
\* payload's order), and the row saved holds the same five values, the
\* request's description and no column for an extra field.
C9_FieldsAsGiven ==
    \A d \in ObjectPayloads :
        (state \in Terminal /\ HasAllFields(d)
         /\ content = TextContent(RenderObject(d))) =>
            /\ state = "Succeeded"
            /\ \A f \in FieldNames : DictGet(result.d, f, Unset) = PayloadValue(d, f)
            /\ (handled /\ HasUser /\ supabase) => saveOutcome \in {"saved", "failed"}
            /\ saveOutcome = "saved" =>
                 /\ \A f \in FieldNames : FieldOf(LastRow, f) = PayloadValue(d, f)
                 /\ LastRow.description = description
                 /\ DOMAIN LastRow = RowColumns

\* an object with an extra field was saved
C9_Witness ==
    /\ handled
    /\ state = "Succeeded"
    /\ content = TextContent(RenderObject(Append(FullPayload, Entry("tempo", PyStr("slow")))))
    /\ saveOutcome = "saved"
    /\ LastRow.aesthetic_keywords = PyList(<<PyStr("smooth"), PyStr("night")>>)

\* C10: a request has called the service exactly once from the moment it left
\* Calling, and not at all before; never twice.
C10_OneCall ==
    /\ calls <= 1
    /\ state \in {"Idle", "Building", "Calling"} => calls = 0
    /\ state \in {"Validating", "Succeeded", "Failed"} => calls = 1

\* requests whose call raised, whose output was empty and whose output did
\* not parse ended after one call
C10_Witness ==
    /\ handled
    /\ state = "Failed"
    /\ calls = 1
    /\ reqId >= 2

\* C11: the table changes only in the step that handles a succeeded request
\* of a session holding a user, and then by one row appended after the rows
\* already there, carrying that user, the request's description and the
\* fields of its result; a failed request and a request of a guest call no
\* save; a succeeded request of a session holding a user calls save once.
C11_SaveOnlyAuthenticatedSuccess ==
    /\ [](/\ (handled /\ state = "Failed") => saveOutcome = "none"
          /\ ~handled => saveOutcome = "none"
          /\ (handled /\ state = "Succeeded") =>
               saveOutcome \in {"skipped", "saved", "failed", "nostore"}
          /\ Len(history) <= reqId)
    /\ [][ /\ history' # history =>
                /\ state = "Succeeded" /\ ~handled /\ handled'
                /\ session.user \in Users
                /\ ~session.guest_mode
                /\ saveOutcome' = "saved"
                /\ Len(history') = Len(history) + 1
                /\ SubSeq(history', 1, Len(history)) = history
                /\ history'[Len(history')].user_id = session.user
                /\ history'[Len(history')].description = description
                /\ \A f \in FieldNames :
                     FieldOf(history'[Len(history')], f) = DictGet(result.d, f, PyNone)
           /\ (handled' /\ ~handled /\ state = "Succeeded") =>
                IF session.user \in Users
                THEN saveOutcome' \in {"saved", "failed", "nostore"}
                ELSE saveOutcome' = "skipped" /\ history' = history
           /\ (saveOutcome' = "saved" /\ saveOutcome # "saved") => history' # history
         ]_vars

\* one request of a user was saved, and after a logout a guest's request
\* succeeded without a second row
C11_Witness ==
    /\ handled
    /\ state = "Succeeded"
    /\ session.guest_mode
    /\ saveOutcome = "skipped"
    /\ Len(history) = 1
    /\ reqId = 2

\* C12: a request carries the warning exactly when its description has fewer
\* than 10 words; a warned request is never Failed without the service having
\* been called; and, the script run going on, every warned request in Idle
\* reaches the call of the service.
C12_WarningAdvisory ==
    /\ [](reqId >= 1 => (warned <=> Len(description) < 10))
    /\ []((warned /\ state = "Failed") => calls = 1)
    /\ []((warned /\ state \in {"Validating", "Succeeded", "Failed"}) =>
            (prompt # <<>> /\ calls = 1))
    /\ (reqId >= 1 /\ state = "Idle" /\ warned) ~> (warned /\ calls = 1)

\* a description of nine words was warned about and the service answered
C12_Witness ==
    /\ warned
    /\ Len(description) = 9
    /\ state = "Succeeded"
    /\ calls = 1

\* C13: the session never holds a user (or a user's email) together with the
\* guest-mode flag.
C13_ModesExclusive ==
    session.guest_mode => (session.user = NoUser /\ session.user_email = NoUser)

\* a user logged in, saved a vibe and logged out, and the session then went on
\* as a guest
C13_Witness ==
    /\ session.guest_mode
    /\ session.user = NoUser
    /\ history # <<>>

\* desc is in p word for word, between a part before it and a part after it
Embeds(p, desc) ==
    \E i \in 2..(Len(p) - Len(desc)) : SubSeq(p, i, i + Len(desc) - 1) = desc

\* C14: any two requests made of the service for the same description carry
\* the same prompt, the same system instruction and the same output mode,
\* whatever the session and the table were and whatever was asked before; the
\* prompt holds the description word for word; the request in the call is
\* among them.
C14_PromptPure ==
    /\ \A a, b \in sent : a.description = b.description => a = b
    /\ \A a \in sent :
         /\ a.description # <<>>
         /\ Embeds(a.prompt, a.description)
         /\ a.system_instruction # ""
         /\ a.response_mime_type = "application/json"
    /\ calls = 1 =>
         \E a \in sent :
            /\ a.description = description
            /\ a.prompt = prompt
            /\ a.system_instruction = system_instruction

\* the same description was sent by a user with a saved vibe and then by a
\* guest, and a different description was sent as well in another run
C14_Witness ==
    /\ reqId = 2
    /\ calls = 1
    /\ session.guest_mode
    /\ history # <<>>
    /\ history[1].description = description
    /\ Cardinality(sent) = 1

\* the service answered with text that json.loads rejects
ParseFailed ==
    /\ content # NoContent
    /\ ~content.isNone
    /\ ~json_loads(content.toks).ok

\* C15: a failure caused by raw output that does not parse is reported as
\* GenericServiceError whatever the parser's diagnostic says, never as
\* RateLimitError or CredentialError.
C15_ParseFailureGeneric ==
    (handled /\ ParseFailed) => errorKind = "GenericServiceError"

\* the session holds neither an authenticated user nor the guest-mode flag
Neither == session.user = NoUser /\ ~session.guest_mode

\* C16: a request is made and served only while the session holds a user or
\* the guest-mode flag; in the state with neither nothing of the application
\* view happens (no request, no display, no save, no call of the service),
\* and the only steps that leave that state are a login that stored a user
\* together with the email, and Continue as Guest.
C16_AppGated ==
    /\ []((reqId > 0 /\ ~handled) => ~Neither)
    /\ [][Neither =>
            /\ UNCHANGED <<supabase, history, requestVars, outcomeVars, sent>>
            /\ \/ session' = session
               \/ /\ session'.user \in Users
                  /\ session'.user_email \in Emails
                  /\ session'.guest_mode = session.guest_mode
               \/ session' = [session EXCEPT !.guest_mode = TRUE]]_vars

\* the application view was entered by a login and a request is with the
\* service
C16_Witness ==
    /\ session.user \in Users
    /\ ~session.guest_mode
    /\ state = "Calling"

\* C17: a click on Login changes the session only when email and password
\* were given, the identity provider is available and its response carries a
\* user, and then the user and the email are stored together; with a missing
\* email or password, no provider, a raise of the provider or a response
\* without a user the session stays as it was, unauthenticated.
C17_LoginFrame ==
    /\ [](Neither =>
            \A e \in Emails \cup {""}, p \in {"", "pw"}, o \in LoginOutcomes :
               LET after == LoginSession(e, p, o) IN
               IF e # "" /\ p # "" /\ supabase /\ o = "user"
               THEN /\ after.user \in Users
                    /\ after.user_email = e
                    /\ after.guest_mode = session.guest_mode
               ELSE /\ after = session
                    /\ after.user = NoUser)
    /\ []((session.user = NoUser) <=> (session.user_email = NoUser))
    /\ [][(session.user = NoUser /\ session'.user_email # NoUser) =>
            /\ supabase
            /\ session'.user \in Users
            /\ session'.user_email \in Emails
            /\ session'.guest_mode = session.guest_mode]_vars

\* a login has just stored the user and the email
C17_Witness ==
    /\ supabase
    /\ session.user \in Users
    /\ session.user_email \in Emails
    /\ ~session.guest_mode
    /\ reqId = 0

\* C18: logout_user never raises to its caller; it removes user and
\* user_email only when a provider is configured and its sign_out returned;
\* when sign_out raises, or no provider is configured, the session is left
\* as it was and the user is still in it; the guest-mode flag is never
\* touched.
C18_LogoutSafe ==
    /\ [](\A ok \in BOOLEAN :
            LET r == logout_user(ok) IN
            /\ ~r.raised
            /\ r.session.guest_mode = session.guest_mode
            /\ IF supabase /\ ok
               THEN r.session.user = NoUser /\ r.session.user_email = NoUser
               ELSE r.session = session)
    /\ [][(session.user # NoUser /\ session'.user = NoUser) =>
            /\ supabase
            /\ session'.user_email = NoUser
            /\ session'.guest_mode = session.guest_mode
            /\ UNCHANGED <<history, requestVars, outcomeVars, sent>>]_vars

\* a user who saved a vibe has logged out
C18_Witness ==
    /\ Neither
    /\ session.user_email = NoUser
    /\ history # <<>>

=============================================================================
